---- MODULE Spec2Model ----
(***************************************************************************)
(* A model of src/Q2.py (first draft, lines 1-318): the clinic billing     *)
(* domain.  Medication / AgeLimitedMedication / PrescribedItem objects     *)
(* live in two heaps (sequences indexed by object identity), Visit objects *)
(* in a third one in construction order; Visit._nextId is the class-level  *)
(* counter and Clinic._medicationList the registry dictionary.             *)
(*                                                                         *)
(* Numbers.  Python floats are modelled as exact decimals:                 *)
(*   - dosage, dosageLimit and quantities are whole milligrams;            *)
(*   - maximumDosageAllowedPerKg is in hundredths of a mg per kg, weights  *)
(*     are in tenths of a kg, and a recommended dosage is in units of      *)
(*     1/2000 mg, so that halving a product of the two is exact;           *)
(*   - rates per mg, costs, consult rates and totals are in thousandths    *)
(*     of a dollar, so that 0.1 is 100 and 0.075 is 75.                    *)
(* Binary rounding of the float operations is not modelled.                *)
(***************************************************************************)
EXTENDS Integers, Sequences, FiniteSets, TLC

VARIABLES
    medications,      \* heap of Medication / AgeLimitedMedication objects
    prescribedItems,  \* heap of PrescribedItem objects
    visits,           \* the Visit objects, in construction order
    nextId,           \* Visit._nextId
    medicationList,   \* Clinic._medicationList: code -> medication (0: no key)
    addLog,           \* history: the medications passed to addMedication
    ret,              \* outcome of the last call
    calls             \* number of calls made so far

vars == <<medications, prescribedItems, visits, nextId, medicationList,
          addLog, ret, calls>>

\* A run makes at most MaxCalls calls.
MaxCalls == 6

----------------------------------------------------------------------------
\* Outcomes of a call: a returned bool, number or object, None, or a raise.

\* op is the method called; tag tells which of b (a bool) and n (a number or
\* a heap index) is the returned value.

RetNone(op) == [op |-> op, tag |-> "None", b |-> FALSE, n |-> 0]

RetBool(op, x) == [op |-> op, tag |-> "bool", b |-> x, n |-> 0]

RetNum(op, x) == [op |-> op, tag |-> "num", b |-> FALSE, n |-> x]

RetObj(op, x) == [op |-> op, tag |-> "obj", b |-> FALSE, n |-> x]

Raise(op, exc) == [op |-> op, tag |-> exc, b |-> FALSE, n |-> 0]

\* int + float and int * float: whole dollars as thousandths.
ToMilli(x) == x * 1000

----------------------------------------------------------------------------
\* Medication and PrescribedItem

Medication(code, maximumDosageAllowedPerKg, dosageLimit, rateType) ==
    [class |-> "Medication", code |-> code,
     maximumDosageAllowedPerKg |-> maximumDosageAllowedPerKg,
     dosageLimit |-> dosageLimit, rateType |-> rateType, minimumAge |-> 0]

AgeLimitedMedication(code, maxDosagePerKg, dosageLimit, rateType, minimumAge) ==
    [Medication(code, maxDosagePerKg, dosageLimit, rateType)
        EXCEPT !.class = "AgeLimitedMedication", !.minimumAge = minimumAge]

\* min(a, b)
Min(a, b) == IF a <= b THEN a ELSE b

\* Mutant: the halving starts below 12 instead of at 12.
Medication_recommendedDosage_below12(med, age, weight) ==
    LET recommendedDosage ==
            2 * Min(weight * med.maximumDosageAllowedPerKg,
                    med.dosageLimit * 1000)
    IN IF age < 12 THEN recommendedDosage \div 2 ELSE recommendedDosage

\* Medication.recommendedDosage: weight (tenths of a kg) times the dosage
\* per kg (hundredths of a mg) is in thousandths of a mg, as is the limit
\* times 1000; the result is kept in halves of that unit.
Medication_recommendedDosage(med, age, weight) ==
    LET recommendedDosage ==
            2 * Min(weight * med.maximumDosageAllowedPerKg,
                    med.dosageLimit * 1000)
    IN IF age <= 12 THEN recommendedDosage \div 2 ELSE recommendedDosage

\* Mutant: a patient of exactly the minimum age is refused too.
AgeLimitedMedication_recommendedDosage_strict(med, age, weight) ==
    IF age <= med.minimumAge THEN 0
    ELSE Medication_recommendedDosage(med, age, weight)

AgeLimitedMedication_recommendedDosage(med, age, weight) ==
    IF age < med.minimumAge THEN 0
    ELSE Medication_recommendedDosage(med, age, weight)

\* medication.recommendedDosage(age, weight): dispatch on the object's class
recommendedDosage(med, age, weight) ==
    IF med.class = "AgeLimitedMedication"
    THEN AgeLimitedMedication_recommendedDosage(med, age, weight)
    ELSE Medication_recommendedDosage(med, age, weight)

CallRecommendedDosage(m, age, weight) ==
    /\ calls < MaxCalls
    /\ ret' = RetNum("recommendedDosage",
                     recommendedDosage(medications[m], age, weight))
    /\ calls' = calls + 1
    /\ UNCHANGED <<medications, prescribedItems, visits, nextId,
                   medicationList, addLog>>

\* Mutant: the comparison is turned round.
compareStrength_reversed(med, anotherMedication) ==
    IF med.dosageLimit = anotherMedication.dosageLimit THEN 0
    ELSE IF med.dosageLimit > anotherMedication.dosageLimit THEN 1
    ELSE -1

compareStrength(med, anotherMedication) ==
    IF med.dosageLimit = anotherMedication.dosageLimit THEN 0
    ELSE IF med.dosageLimit < anotherMedication.dosageLimit THEN 1
    ELSE -1

CallCompareStrength(m, another) ==
    /\ calls < MaxCalls
    /\ ret' = RetNum("compareStrength",
                     compareStrength(medications[m], medications[another]))
    /\ calls' = calls + 1
    /\ UNCHANGED <<medications, prescribedItems, visits, nextId,
                   medicationList, addLog>>

PrescribedItem(medication, dosage, frequencyPerDay, duration) ==
    [medication |-> medication, dosage |-> dosage,
     frequencyPerDay |-> frequencyPerDay, duration |-> duration]

\* item.medication: the referenced object of the heap
medication(item) == medications[item.medication]

\* Mutant: the duration is left out of the product.
quantityDispensed_noDuration(item) ==
    item.dosage * item.frequencyPerDay

quantityDispensed(item) ==
    item.dosage * item.frequencyPerDay * item.duration

CallQuantityDispensed(i) ==
    /\ calls < MaxCalls
    /\ ret' = RetNum("quantityDispensed", quantityDispensed(prescribedItems[i]))
    /\ calls' = calls + 1
    /\ UNCHANGED <<medications, prescribedItems, visits, nextId,
                   medicationList, addLog>>

\* Python's a // b on floats: the floor of the quotient, for either sign of b.
FloorDiv(a, b) == IF b > 0 THEN a \div b ELSE (-a) \div (-b)

\* Mutant: a zero dosageLimit is guarded and gives strength 0.
dosageStrength_guarded(item) ==
    IF medication(item).dosageLimit = 0
    THEN RetNum("dosageStrength", 0)
    ELSE RetNum("dosageStrength",
                FloorDiv(item.dosage, medication(item).dosageLimit))

\* self._dosage // self._medication.dosageLimit: a zero dosageLimit raises.
dosageStrength(item) ==
    IF medication(item).dosageLimit = 0
    THEN Raise("dosageStrength", "ZeroDivisionError")
    ELSE RetNum("dosageStrength",
                FloorDiv(item.dosage, medication(item).dosageLimit))

CallDosageStrength(i) ==
    /\ calls < MaxCalls
    /\ ret' = dosageStrength(prescribedItems[i])
    /\ calls' = calls + 1
    /\ UNCHANGED <<medications, prescribedItems, visits, nextId,
                   medicationList, addLog>>

----------------------------------------------------------------------------
\* Clinic

\* Clinic.__init__ ignores its argument: the registry starts empty.
Clinic_init(codes) == [c \in codes |-> 0]

searchMedicationByCode(code) ==
    /\ calls < MaxCalls
    /\ IF medicationList[code] # 0
       THEN ret' = RetObj("searchMedicationByCode", medicationList[code])
       ELSE ret' = RetNone("searchMedicationByCode")
    /\ calls' = calls + 1
    /\ UNCHANGED <<medications, prescribedItems, visits, nextId,
                   medicationList, addLog>>

\* Mutant: a registered code is overwritten.
addMedication_overwrite(m) ==
    /\ calls < MaxCalls
    /\ medicationList' = [medicationList EXCEPT ![medications[m].code] = m]
    /\ ret' = RetBool("addMedication", medicationList[medications[m].code] = 0)
    /\ addLog' = Append(addLog, m)
    /\ calls' = calls + 1
    /\ UNCHANGED <<medications, prescribedItems, visits, nextId>>

addMedication(m) ==
    /\ calls < MaxCalls
    /\ IF medicationList[medications[m].code] = 0
       THEN /\ medicationList' =
                   [medicationList EXCEPT ![medications[m].code] = m]
            /\ ret' = RetBool("addMedication", TRUE)
       ELSE /\ ret' = RetBool("addMedication", FALSE)
            /\ UNCHANGED medicationList
    /\ addLog' = Append(addLog, m)
    /\ calls' = calls + 1
    /\ UNCHANGED <<medications, prescribedItems, visits, nextId>>

----------------------------------------------------------------------------
\* Visit, CorporateVisit, PrivateVisit

Visit_consultRate == 35

CorporateVisit_consultRate == 20

\* PrivateVisit defines no _consultRate: the lookup finds Visit's.
PrivateVisit_consultRate == Visit_consultRate

\* Visit.__init__, followed by the subclass's setConsultRate call, which
\* stores the rate as an attribute of the new instance.
Visit_init(class, rate) ==
    [class |-> class, visitId |-> nextId, prescribedItemList |-> <<>>,
     total |-> 0, consultRate |-> rate]

\* Mutant: the subclass advances a counter of its own, not Visit._nextId.
CorporateVisit_init_ownCounter ==
    /\ calls < MaxCalls
    /\ visits' = Append(visits,
                        Visit_init("CorporateVisit", CorporateVisit_consultRate))
    /\ ret' = RetNone("CorporateVisit")
    /\ calls' = calls + 1
    /\ UNCHANGED <<medications, prescribedItems, nextId, medicationList, addLog>>

CorporateVisit_init ==
    /\ calls < MaxCalls
    /\ visits' = Append(visits,
                        Visit_init("CorporateVisit", CorporateVisit_consultRate))
    /\ nextId' = nextId + 1
    /\ ret' = RetNone("CorporateVisit")
    /\ calls' = calls + 1
    /\ UNCHANGED <<medications, prescribedItems, medicationList, addLog>>

PrivateVisit_init ==
    /\ calls < MaxCalls
    /\ visits' = Append(visits,
                        Visit_init("PrivateVisit", PrivateVisit_consultRate))
    /\ nextId' = nextId + 1
    /\ ret' = RetNone("PrivateVisit")
    /\ calls' = calls + 1
    /\ UNCHANGED <<medications, prescribedItems, medicationList, addLog>>

\* getConsultRate and setConsultRate take the instance as cls: the attribute
\* read and written is the instance's.
getConsultRate(visit) == visit.consultRate

setConsultRate(v, newConsultRate) ==
    /\ calls < MaxCalls
    /\ visits' = [visits EXCEPT ![v].consultRate = newConsultRate]
    /\ ret' = RetNone("setConsultRate")
    /\ calls' = calls + 1
    /\ UNCHANGED <<medications, prescribedItems, nextId, medicationList, addLog>>

\* Mutant: the loop compares the items, not their medication codes.
addPrescribedItem_loop_sameItem(list, k, prescribedItem) ==
    \E j \in k .. Len(list) : prescribedItems[list[j]] = prescribedItem

\* The loop of addPrescribedItem from position k on: TRUE when it meets an
\* item of the same medication code.
RECURSIVE addPrescribedItem_loop(_, _, _)
addPrescribedItem_loop(list, k, prescribedItem) ==
    IF k > Len(list) THEN FALSE
    ELSE IF medication(prescribedItems[list[k]]).code
              = medication(prescribedItem).code
         THEN TRUE
         ELSE addPrescribedItem_loop(list, k + 1, prescribedItem)

\* Mutant: the items are kept in one list that all the visits share.
addPrescribedItem_sharedList(v, i) ==
    /\ calls < MaxCalls
    /\ IF addPrescribedItem_loop(visits[v].prescribedItemList, 1,
                                 prescribedItems[i])
       THEN /\ ret' = RetBool("addPrescribedItem", FALSE)
            /\ UNCHANGED visits
       ELSE /\ visits' = [w \in DOMAIN visits |->
                             [visits[w] EXCEPT !.prescribedItemList =
                                 Append(visits[v].prescribedItemList, i)]]
            /\ ret' = RetBool("addPrescribedItem", TRUE)
    /\ calls' = calls + 1
    /\ UNCHANGED <<medications, prescribedItems, nextId, medicationList, addLog>>

\* Mutant: a successful add also clears the settled total.
addPrescribedItem_clearsTotal(v, i) ==
    /\ calls < MaxCalls
    /\ IF addPrescribedItem_loop(visits[v].prescribedItemList, 1,
                                 prescribedItems[i])
       THEN /\ ret' = RetBool("addPrescribedItem", FALSE)
            /\ UNCHANGED visits
       ELSE /\ visits' = [visits EXCEPT ![v].prescribedItemList = Append(@, i),
                                        ![v].total = 0]
            /\ ret' = RetBool("addPrescribedItem", TRUE)
    /\ calls' = calls + 1
    /\ UNCHANGED <<medications, prescribedItems, nextId, medicationList, addLog>>

addPrescribedItem(v, i) ==
    /\ calls < MaxCalls
    /\ IF addPrescribedItem_loop(visits[v].prescribedItemList, 1,
                                 prescribedItems[i])
       THEN /\ ret' = RetBool("addPrescribedItem", FALSE)
            /\ UNCHANGED visits
       ELSE /\ visits' = [visits EXCEPT ![v].prescribedItemList = Append(@, i)]
            /\ ret' = RetBool("addPrescribedItem", TRUE)
    /\ calls' = calls + 1
    /\ UNCHANGED <<medications, prescribedItems, nextId, medicationList, addLog>>

\* removePrescribedItem: with no item held the outer loop does not run and
\* False is returned; otherwise `for index in prescribedItem` asks the first
\* item for an iterator, and a PrescribedItem has none: TypeError, before any
\* code is compared or any item deleted.
removePrescribedItem(v, code) ==
    /\ calls < MaxCalls
    /\ IF visits[v].prescribedItemList = <<>>
       THEN ret' = RetBool("removePrescribedItem", FALSE)
       ELSE ret' = Raise("removePrescribedItem", "TypeError")
    /\ calls' = calls + 1
    /\ UNCHANGED <<medications, prescribedItems, visits, nextId,
                   medicationList, addLog>>

\* Mutant: the lower tier ends before rate type 3.
CorporateVisit_getRatePerPrescriptionItem_tier(rateType) ==
    IF rateType < 3 /\ rateType >= 1 THEN rateType * 100
    ELSE IF rateType >= 3 THEN rateType * 75
    ELSE 0

CorporateVisit_getRatePerPrescriptionItem(rateType) ==
    IF rateType <= 3 /\ rateType >= 1 THEN rateType * 100
    ELSE IF rateType > 3 THEN rateType * 75
    ELSE 0

\* Mutant: one flat rate per mg, whatever the rate type.
PrivateVisit_getRatePerPrescriptionItem_flat(rateType) == 100

PrivateVisit_getRatePerPrescriptionItem(rateType) == rateType * 100

\* self.getRatePerPrescriptionItem: dispatch on the visit's class
getRatePerPrescriptionItem(visit, rateType) ==
    IF visit.class = "CorporateVisit"
    THEN CorporateVisit_getRatePerPrescriptionItem(rateType)
    ELSE PrivateVisit_getRatePerPrescriptionItem(rateType)

\* Mutant: the loop assigns each item's cost to cost instead of adding it.
getPrescriptionCost_loop_assign(visit, k, cost) ==
    IF k > Len(visit.prescribedItemList) THEN cost
    ELSE LET item ==
                 prescribedItems[visit.prescribedItemList[
                                     Len(visit.prescribedItemList)]]
         IN quantityDispensed(item)
            * getRatePerPrescriptionItem(visit, medication(item).rateType)

\* The loop of getPrescriptionCost from position k on, cost being the sum so far.
RECURSIVE getPrescriptionCost_loop(_, _, _)
getPrescriptionCost_loop(visit, k, cost) ==
    IF k > Len(visit.prescribedItemList) THEN cost
    ELSE LET item == prescribedItems[visit.prescribedItemList[k]]
         IN getPrescriptionCost_loop(visit, k + 1,
                cost + quantityDispensed(item)
                       * getRatePerPrescriptionItem(visit,
                                                    medication(item).rateType))

getPrescriptionCost(visit) == getPrescriptionCost_loop(visit, 1, 0)

CallGetRatePerPrescriptionItem(v, rateType) ==
    /\ calls < MaxCalls
    /\ ret' = RetNum("getRatePerPrescriptionItem",
                     getRatePerPrescriptionItem(visits[v], rateType))
    /\ calls' = calls + 1
    /\ UNCHANGED <<medications, prescribedItems, visits, nextId,
                   medicationList, addLog>>

CallGetPrescriptionCost(v) ==
    /\ calls < MaxCalls
    /\ ret' = RetNum("getPrescriptionCost", getPrescriptionCost(visits[v]))
    /\ calls' = calls + 1
    /\ UNCHANGED <<medications, prescribedItems, visits, nextId,
                   medicationList, addLog>>

\* Mutant: the total is built on the base class's rate, whatever the visit.
setTotal_baseRate(v) ==
    /\ calls < MaxCalls
    /\ visits' = [visits EXCEPT ![v].total =
                     ToMilli(Visit_consultRate)
                     + getPrescriptionCost(visits[v])]
    /\ ret' = RetNone("setTotal")
    /\ calls' = calls + 1
    /\ UNCHANGED <<medications, prescribedItems, nextId, medicationList, addLog>>

setTotal(v) ==
    /\ calls < MaxCalls
    /\ visits' = [visits EXCEPT ![v].total =
                     ToMilli(visits[v].consultRate)
                     + getPrescriptionCost(visits[v])]
    /\ ret' = RetNone("setTotal")
    /\ calls' = calls + 1
    /\ UNCHANGED <<medications, prescribedItems, nextId, medicationList, addLog>>

----------------------------------------------------------------------------
\* The objects main() builds (DM01, ZE01, PI1, PI2), and a second medication
\* registered under the code DM01 with an item prescribing it.

MainMedications ==
    << Medication("DM01", 25, 15, 2),
       AgeLimitedMedication("ZE01", 8, 4, 4, 16),
       Medication("DM01", 50, 20, -1) >>

MainPrescribedItems ==
    << PrescribedItem(1, 10, 3, 5),
       PrescribedItem(2, 4, 3, 5),
       PrescribedItem(3, 6, 2, 1) >>

Codes == {"DM01", "ZE01", "XX00"}

Init ==
    /\ medications = MainMedications
    /\ prescribedItems = MainPrescribedItems
    /\ visits = <<>>
    /\ nextId = 1
    /\ medicationList = Clinic_init(Codes)
    /\ addLog = <<>>
    /\ ret = RetNone("main")
    /\ calls = 0

\* The rates a caller passes to setConsultRate.
ConsultRates == {CorporateVisit_consultRate, Visit_consultRate}

VisitCalls ==
    \/ CorporateVisit_init
    \/ PrivateVisit_init
    \/ \E v \in DOMAIN visits, i \in DOMAIN prescribedItems :
           addPrescribedItem(v, i)
    \/ \E v \in DOMAIN visits, code \in Codes : removePrescribedItem(v, code)
    \/ \E v \in DOMAIN visits : CallGetPrescriptionCost(v)
    \/ \E v \in DOMAIN visits : setTotal(v)

\* Visits whose consult rate only the constructors set.
Next == VisitCalls

Spec == Init /\ [][Next]_vars

\* The same, with callers of setConsultRate.
NextRate ==
    \/ VisitCalls
    \/ \E v \in DOMAIN visits, r \in ConsultRates : setConsultRate(v, r)

SpecRate == Init /\ [][NextRate]_vars

\* The clinic's registry.
NextClinic ==
    \/ \E m \in DOMAIN medications : addMedication(m)
    \/ \E code \in Codes : searchMedicationByCode(code)

SpecClinic == Init /\ [][NextClinic]_vars

\* The value computations, on one medication and one item prescribing it
\* drawn from the sets below; RateTypes are the rate types looked up, around
\* the tier boundaries.
Dosages == {-5, 0, 4, 10, 15, 31}

Frequencies == {0, 1, 3}

Durations == {1, 5}

DosageLimits == {0, 4, 15}

RateTypes == -2 .. 5

InitItem ==
    /\ \E limit \in DosageLimits :
          medications = << Medication("DM01", 25, limit, 2) >>
    /\ \E dosage \in Dosages, frequencyPerDay \in Frequencies,
          duration \in Durations :
          prescribedItems =
              << PrescribedItem(1, dosage, frequencyPerDay, duration) >>
    /\ visits = <<>>
    /\ nextId = 1
    /\ medicationList = Clinic_init(Codes)
    /\ addLog = <<>>
    /\ ret = RetNone("main")
    /\ calls = 0

NextItem ==
    \/ \E i \in DOMAIN prescribedItems : CallQuantityDispensed(i)
    \/ \E i \in DOMAIN prescribedItems : CallDosageStrength(i)

SpecItem == InitItem /\ [][NextItem]_vars

\* The rate lookup of visits of both classes.
NextTier ==
    \/ CorporateVisit_init
    \/ PrivateVisit_init
    \/ \E v \in DOMAIN visits, rateType \in RateTypes :
           CallGetRatePerPrescriptionItem(v, rateType)

SpecTier == Init /\ [][NextTier]_vars

\* The dosage rules, on two medications of one class that differ in their
\* dosage limit only, drawn from the sets below; ages lie around 12 and
\* around the minimum ages.
MedClasses == {"Medication", "AgeLimitedMedication"}

DosagesPerKg == {0, 8, 25}

MedDosageLimits == {-4, 0, 4, 15}

MinimumAges == {5, 16}

Ages == {4, 5, 12, 13, 16}

Weights == {-10, 0, 100, 655}

NewMedication(class, perKg, limit, minimumAge) ==
    IF class = "Medication" THEN Medication("DM01", perKg, limit, 2)
    ELSE AgeLimitedMedication("ZE01", perKg, limit, 4, minimumAge)

InitMed ==
    /\ \E class \in MedClasses, perKg \in DosagesPerKg,
          limit \in MedDosageLimits, another \in MedDosageLimits,
          minimumAge \in MinimumAges :
          medications = << NewMedication(class, perKg, limit, minimumAge),
                           NewMedication(class, perKg, another, minimumAge) >>
    /\ prescribedItems = <<>>
    /\ visits = <<>>
    /\ nextId = 1
    /\ medicationList = Clinic_init(Codes)
    /\ addLog = <<>>
    /\ ret = RetNone("main")
    /\ calls = 0

NextMed ==
    \/ \E m \in DOMAIN medications, age \in Ages, weight \in Weights :
           CallRecommendedDosage(m, age, weight)
    \/ \E m, another \in DOMAIN medications : CallCompareStrength(m, another)

SpecMed == InitMed /\ [][NextMed]_vars

----------------------------------------------------------------------------
\* Properties

\* The items a visit holds, and the medication code of a heap item.
Held(v) == visits[v].prescribedItemList

CodeOf(i) == medication(prescribedItems[i]).code

\* C1: the visit ids come from one counter shared by both subclasses: the
\* k-th visit constructed, of either class, has id k, so the ids are distinct
\* and increase in construction order, and the counter is always one more
\* than the number of visits constructed; no call of addPrescribedItem,
\* removePrescribedItem, setTotal or setConsultRate changes either.
C1_VisitIdsFromOneCounter ==
    /\ nextId = Len(visits) + 1
    /\ \A k \in DOMAIN visits : visits[k].visitId = k
    /\ \A j, k \in DOMAIN visits :
          j < k => visits[j].visitId < visits[k].visitId

C1_Witness ==
    /\ Len(visits) >= 3
    /\ \E j, k \in DOMAIN visits :
          /\ j < k
          /\ visits[j].class = "PrivateVisit"
          /\ visits[k].class = "CorporateVisit"
          /\ Held(j) # <<>>
    /\ ret.op = "setConsultRate"

\* C2: addPrescribedItem returns False and leaves the visit's items as they
\* are when an item of the same medication code is held, and otherwise
\* appends the item at the end and returns True; so no visit ever holds two
\* items of one medication code.
C2_AddRejectsDuplicateCode ==
    /\ [](\A v \in DOMAIN visits : \A j, k \in DOMAIN Held(v) :
            j # k => CodeOf(Held(v)[j]) # CodeOf(Held(v)[k]))
    /\ [][\A v \in DOMAIN visits, i \in DOMAIN prescribedItems :
            addPrescribedItem(v, i) =>
                IF \E k \in DOMAIN Held(v) : CodeOf(Held(v)[k]) = CodeOf(i)
                THEN /\ ret' = RetBool("addPrescribedItem", FALSE)
                     /\ visits' = visits
                ELSE /\ ret' = RetBool("addPrescribedItem", TRUE)
                     /\ visits'[v].prescribedItemList = Held(v) \o <<i>>
                     /\ \A w \in DOMAIN visits : w # v => visits'[w] = visits[w]
         ]_vars

\* A visit holding two items has just rejected a third one, a different item
\* of a code it holds.
C2_Witness ==
    /\ ret = RetBool("addPrescribedItem", FALSE)
    /\ \E v \in DOMAIN visits :
          /\ Len(Held(v)) = 2
          /\ \E i \in DOMAIN prescribedItems :
                /\ \A k \in DOMAIN Held(v) : Held(v)[k] # i
                /\ \E k \in DOMAIN Held(v) : CodeOf(Held(v)[k]) = CodeOf(i)

\* The positions of a visit's items of medication code `code`, and a sequence
\* without its position p.
Matches(v, code) == {k \in DOMAIN Held(v) : CodeOf(Held(v)[k]) = code}

First(K) == CHOOSE k \in K : \A j \in K : k <= j

Without(list, p) ==
    [k \in 1 .. Len(list) - 1 |-> IF k < p THEN list[k] ELSE list[k + 1]]

\* C3: removePrescribedItem(code) removes the first held item of that code
\* and returns True, the other items keeping their order; it returns False
\* and changes nothing when no held item has the code.
C3_RemoveFirstMatch ==
    [][\A v \in DOMAIN visits, code \in Codes :
          removePrescribedItem(v, code) =>
              IF Matches(v, code) # {}
              THEN /\ ret' = RetBool("removePrescribedItem", TRUE)
                   /\ visits'[v].prescribedItemList
                         = Without(Held(v), First(Matches(v, code)))
              ELSE /\ ret' = RetBool("removePrescribedItem", FALSE)
                   /\ visits' = visits
      ]_vars

\* The first medication passed to addMedication with the code, 0 if none was.
FirstAdded(code) ==
    LET K == {k \in DOMAIN addLog : medications[addLog[k]].code = code}
    IN IF K = {} THEN 0 ELSE addLog[First(K)]

\* C4: addMedication returns True and stores the medication under its code
\* when the code is not registered, and returns False without changing the
\* registry when it is; so the registry holds, and searchMedicationByCode
\* returns, the first medication added with a code, and None for a code
\* never added.
C4_AddMedicationKeepsFirst ==
    /\ [](\A code \in Codes : medicationList[code] = FirstAdded(code))
    /\ [][\A m \in DOMAIN medications :
            addMedication(m) =>
                IF medicationList[medications[m].code] = 0
                THEN /\ ret' = RetBool("addMedication", TRUE)
                     /\ medicationList'[medications[m].code] = m
                     /\ \A c \in Codes : c # medications[m].code =>
                           medicationList'[c] = medicationList[c]
                ELSE /\ ret' = RetBool("addMedication", FALSE)
                     /\ medicationList' = medicationList
         ]_vars
    /\ [][\A code \in Codes :
            searchMedicationByCode(code) =>
                /\ ret' = IF FirstAdded(code) = 0
                          THEN RetNone("searchMedicationByCode")
                          ELSE RetObj("searchMedicationByCode", FirstAdded(code))
                /\ medicationList' = medicationList
         ]_vars

\* A second medication of a registered code was passed and the search still
\* returns the first one.
C4_Witness ==
    /\ ret.op = "searchMedicationByCode"
    /\ ret.tag = "obj"
    /\ \E k \in DOMAIN addLog :
          /\ addLog[k] # ret.n
          /\ medications[addLog[k]].code = medications[ret.n].code

\* The cost of the item at position k of a visit, and the sum of these costs
\* over a set of positions.
ItemCost(visit, k) ==
    LET item == prescribedItems[visit.prescribedItemList[k]]
    IN quantityDispensed(item)
       * getRatePerPrescriptionItem(visit, medication(item).rateType)

RECURSIVE CostOver(_, _)
CostOver(visit, K) ==
    IF K = {} THEN 0
    ELSE LET k == CHOOSE x \in K : TRUE
         IN ItemCost(visit, k) + CostOver(visit, K \ {k})

CostOfHeld(visit) == CostOver(visit, DOMAIN visit.prescribedItemList)

\* C5: right after setTotal on a visit, its total is 20 for a CorporateVisit
\* and 35 for a PrivateVisit plus the prescription cost of the items it then
\* holds, whatever visits were constructed before or after it (the consult
\* rate being set by the constructors only).
C5_SetTotalUsesVariantRate ==
    [][\A v \in DOMAIN visits :
          setTotal(v) =>
              visits'[v].total =
                  (IF visits[v].class = "CorporateVisit" THEN 20000 ELSE 35000)
                  + CostOfHeld(visits[v])
      ]_vars

\* A settled visit holding items, with a visit of the other class constructed
\* before it and one after it.
C5_Witness ==
    /\ ret.op = "setTotal"
    /\ \E u, v, w \in DOMAIN visits :
          /\ u < v /\ v < w
          /\ visits[u].class # visits[v].class
          /\ visits[w].class # visits[v].class
          /\ Held(v) # <<>>
          /\ visits[v].total = ToMilli(visits[v].consultRate)
                               + CostOfHeld(visits[v])

\* C6: a visit's total is 0 when constructed and only setTotal changes it:
\* addPrescribedItem and removePrescribedItem, accepted or not, leave every
\* total as it is, so a total that differs from the consult rate plus the
\* cost of the held items stays until the next setTotal.
C6_OnlySetTotalChangesTotal ==
    /\ [][Len(visits') > Len(visits) => visits'[Len(visits')].total = 0]_vars
    /\ [][\A v \in DOMAIN visits :
            visits'[v].total # visits[v].total => ret'.op = "setTotal"]_vars
    /\ [][\A v \in DOMAIN visits, i \in DOMAIN prescribedItems :
            addPrescribedItem(v, i) =>
                \A w \in DOMAIN visits : visits'[w].total = visits[w].total
         ]_vars
    /\ [][\A v \in DOMAIN visits, code \in Codes :
            removePrescribedItem(v, code) =>
                \A w \in DOMAIN visits : visits'[w].total = visits[w].total
         ]_vars

\* An item was added to a settled visit: the total is the one of before.
C6_Witness ==
    /\ ret = RetBool("addPrescribedItem", TRUE)
    /\ \E v \in DOMAIN visits :
          /\ visits[v].total # 0
          /\ visits[v].total # ToMilli(visits[v].consultRate)
                               + CostOfHeld(visits[v])

\* C7: getPrescriptionCost returns the sum over the held items of
\* quantityDispensed() times the variant's rate for the medication's rate
\* type, 0 when no item is held, and changes neither the items nor the total.
C7_PrescriptionCostIsSum ==
    /\ [](\A v \in DOMAIN visits :
            /\ getPrescriptionCost(visits[v]) = CostOfHeld(visits[v])
            /\ Held(v) = <<>> => getPrescriptionCost(visits[v]) = 0)
    /\ [][\A v \in DOMAIN visits :
            CallGetPrescriptionCost(v) =>
                /\ ret' = RetNum("getPrescriptionCost", CostOfHeld(visits[v]))
                /\ visits' = visits
                /\ prescribedItems' = prescribedItems
                /\ medications' = medications
         ]_vars

\* The cost of a visit holding two items of different rate tiers was asked.
C7_Witness ==
    /\ ret.op = "getPrescriptionCost"
    /\ \E v \in DOMAIN visits :
          /\ Len(Held(v)) = 2
          /\ ret.n = CostOfHeld(visits[v])
          /\ ret.n # ItemCost(visits[v], 1)
          /\ ret.n # ItemCost(visits[v], 2)

\* C8: CorporateVisit's rate per mg is rateType * 0.1 for rate types 1 to 3,
\* rateType * 0.075 above 3 and 0 below 1; PrivateVisit's is rateType * 0.1
\* for every rate type.
C8_RateTiers ==
    [][\A v \in DOMAIN visits, rateType \in RateTypes :
          CallGetRatePerPrescriptionItem(v, rateType) =>
              /\ ret'.op = "getRatePerPrescriptionItem"
              /\ ret'.tag = "num"
              /\ visits[v].class = "PrivateVisit" => ret'.n = rateType * 100
              /\ visits[v].class = "CorporateVisit" =>
                    /\ rateType \in 1 .. 3 => ret'.n = rateType * 100
                    /\ rateType > 3 => ret'.n = rateType * 75
                    /\ rateType < 1 => ret'.n = 0
      ]_vars

\* A CorporateVisit was asked the rate of the upper tier.
C8_Witness ==
    /\ ret = RetNum("getRatePerPrescriptionItem", 375)
    /\ \E v, w \in DOMAIN visits :
          /\ visits[v].class = "CorporateVisit"
          /\ visits[w].class = "PrivateVisit"

\* The PrivateVisits that hold exactly one item, main()'s PI1: DM01 (0.25 mg
\* per kg, limit 15, rate type 2) at 10 mg, 3 times a day for 5 days.
HoldsOnlyPI1(v) ==
    /\ visits[v].class = "PrivateVisit"
    /\ Len(Held(v)) = 1
    /\ prescribedItems[Held(v)[1]] = PrescribedItem(1, 10, 3, 5)
    /\ medications[1] = Medication("DM01", 25, 15, 2)

\* C9, as stated: for such a visit getPrescriptionCost() is 15.0 and the
\* total after setTotal() is 50.0.
C9_Original ==
    /\ [](\A v \in DOMAIN visits :
            HoldsOnlyPI1(v) => getPrescriptionCost(visits[v]) = 15000)
    /\ [][\A v \in DOMAIN visits :
            setTotal(v) /\ HoldsOnlyPI1(v) => visits'[v].total = 50000]_vars

\* C9, amended: for such a visit getPrescriptionCost() is 30.0 (150 mg at
\* 2 * 0.1 per mg) and the total after setTotal() is 65.0 (35 plus 30.0).
C9_PrivateVisitExample ==
    /\ [](\A v \in DOMAIN visits :
            HoldsOnlyPI1(v) => getPrescriptionCost(visits[v]) = 30000)
    /\ [][\A v \in DOMAIN visits :
            setTotal(v) /\ HoldsOnlyPI1(v) => visits'[v].total = 65000]_vars

C9_Witness ==
    /\ ret.op = "setTotal"
    /\ \E v \in DOMAIN visits : HoldsOnlyPI1(v) /\ visits[v].total = 65000

\* C10: with a dosageLimit above 0, quantityDispensed() is dosage *
\* frequencyPerDay * duration and dosageStrength() is the floor of dosage /
\* dosageLimit (150 and 0 for 10 mg, 3 times a day, 5 days, limit 15);
\* neither call changes the item or its medication.
C10_ItemValues ==
    /\ [][\A i \in DOMAIN prescribedItems :
            CallQuantityDispensed(i) =>
                LET item == prescribedItems[i]
                IN /\ ret' = RetNum("quantityDispensed",
                                    item.dosage * item.frequencyPerDay
                                    * item.duration)
                   /\ item = PrescribedItem(1, 10, 3, 5) => ret'.n = 150
                   /\ prescribedItems' = prescribedItems
                   /\ medications' = medications
         ]_vars
    /\ [][\A i \in DOMAIN prescribedItems :
            (CallDosageStrength(i) /\ medication(prescribedItems[i]).dosageLimit > 0)
            =>
                LET item == prescribedItems[i]
                    limit == medication(item).dosageLimit
                IN /\ ret'.op = "dosageStrength"
                   /\ ret'.tag = "num"
                   /\ ret'.n * limit <= item.dosage
                   /\ item.dosage < (ret'.n + 1) * limit
                   /\ (item.dosage = 10 /\ limit = 15) => ret'.n = 0
                   /\ prescribedItems' = prescribedItems
                   /\ medications' = medications
         ]_vars

\* The quantity of the spec's example item was asked.
C10_Witness ==
    /\ ret = RetNum("quantityDispensed", 150)
    /\ prescribedItems[1] = PrescribedItem(1, 10, 3, 5)
    /\ medications[1].dosageLimit = 15

\* The plain Medication objects of the heap.
IsMedication(m) == medications[m].class = "Medication"

\* The smaller of weight times dosage per kg and the dosage limit, in
\* thousandths of a mg.
Capped(m, weight) ==
    LET product == weight * medications[m].maximumDosageAllowedPerKg
        limit == medications[m].dosageLimit * 1000
    IN IF product < limit THEN product ELSE limit

\* A recommendedDosage step of a plain Medication returns the capped value
\* above 12 and half of it up to 12.
RecommendedDosageValue ==
    [][\A m \in DOMAIN medications, age \in Ages, weight \in Weights :
          (CallRecommendedDosage(m, age, weight) /\ IsMedication(m)) =>
              /\ ret'.op = "recommendedDosage"
              /\ ret'.tag = "num"
              /\ age > 12 => ret'.n = 2 * Capped(m, weight)
              /\ age <= 12 => 2 * ret'.n = 2 * Capped(m, weight)
      ]_vars

IsAgeLimited(m) == medications[m].class = "AgeLimitedMedication"

\* C12: an AgeLimitedMedication's recommendedDosage is 0 below its minimum
\* age, and from the minimum age on (the minimum age included) what
\* Medication.recommendedDosage gives for the same age and weight, halved up
\* to 12 as there.
C12_AgeLimitedDosage ==
    [][\A m \in DOMAIN medications, age \in Ages, weight \in Weights :
          (CallRecommendedDosage(m, age, weight) /\ IsAgeLimited(m)) =>
              /\ ret'.op = "recommendedDosage"
              /\ ret'.tag = "num"
              /\ age < medications[m].minimumAge => ret'.n = 0
              /\ age >= medications[m].minimumAge =>
                    /\ ret'.n = Medication_recommendedDosage(
                                    medications[m], age, weight)
                    /\ age > 12 => ret'.n = 2 * Capped(m, weight)
                    /\ age <= 12 => ret'.n = Capped(m, weight)
      ]_vars

\* Age-limited medications from age 5 on returned a dosage that only a
\* halved computation gives: a patient of at least the minimum age and at
\* most 12.
C12_Witness ==
    /\ ret.op = "recommendedDosage"
    /\ ret.n > 0
    /\ \A m \in DOMAIN medications :
          IsAgeLimited(m) /\ medications[m].minimumAge = 5
    /\ \A m \in DOMAIN medications, weight \in Weights :
          ret.n # 2 * Capped(m, weight)

\* C13: compareStrength is -1, 0 or 1; it is 0 exactly when the two dosage
\* limits are equal and 1 exactly when the first one's is the smaller, and
\* a.compareStrength(b) is minus b.compareStrength(a).
C13_CompareStrength ==
    /\ [](\A a, b \in DOMAIN medications :
            LET c == compareStrength(medications[a], medications[b])
            IN /\ c \in {-1, 0, 1}
               /\ c = 0 <=> medications[a].dosageLimit = medications[b].dosageLimit
               /\ c = 1 <=> medications[a].dosageLimit < medications[b].dosageLimit
               /\ c = 0 - compareStrength(medications[b], medications[a]))
    /\ [][\A a, b \in DOMAIN medications :
            CallCompareStrength(a, b) =>
                /\ ret'.op = "compareStrength"
                /\ ret'.n = (IF medications[a].dosageLimit
                                  = medications[b].dosageLimit THEN 0
                             ELSE IF medications[a].dosageLimit
                                       < medications[b].dosageLimit THEN 1
                             ELSE -1)
                /\ medications' = medications
         ]_vars

\* Two medications of different limits were compared, the weaker one first.
C13_Witness ==
    /\ ret = RetNum("compareStrength", -1)
    /\ medications[1].dosageLimit # medications[2].dosageLimit

\* C14: the consult rate belongs to the subclass, not to the instance: after
\* setConsultRate(r) through one visit, getConsultRate() is r for every visit
\* of the same subclass.
C14_ConsultRatePerSubtype ==
    [][\A v \in DOMAIN visits, r \in ConsultRates :
          setConsultRate(v, r) =>
              \A w \in DOMAIN visits :
                  visits[w].class = visits[v].class =>
                      getConsultRate(visits'[w]) = r
      ]_vars

\* C15: dosageStrength() on an item whose medication has a dosageLimit of 0,
\* which the Medication constructor accepts, returns no value: it ends in a
\* ZeroDivisionError, and the item and its medication are as before.
C15_ZeroLimitRaises ==
    [][\A i \in DOMAIN prescribedItems :
          (CallDosageStrength(i)
           /\ medication(prescribedItems[i]).dosageLimit = 0) =>
              /\ ret'.op = "dosageStrength"
              /\ ret'.tag = "ZeroDivisionError"
              /\ ret'.tag # "num"
              /\ prescribedItems' = prescribedItems
              /\ medications' = medications
      ]_vars

C15_Witness ==
    /\ ret = Raise("dosageStrength", "ZeroDivisionError")
    /\ medications[prescribedItems[1].medication]
          = Medication("DM01", 25, 0, 2)
    /\ prescribedItems[1].dosage = 10

\* C16: addPrescribedItem, removePrescribedItem and setTotal on one visit
\* leave the items and the total of every other visit as they are, in every
\* interleaving, also while one PrescribedItem is held by several visits;
\* the heap items themselves are not changed either.
C16_VisitsIsolated ==
    [][\A v \in DOMAIN visits :
          (\/ \E i \in DOMAIN prescribedItems : addPrescribedItem(v, i)
           \/ \E code \in Codes : removePrescribedItem(v, code)
           \/ setTotal(v)) =>
              /\ Len(visits') = Len(visits)
              /\ \A w \in DOMAIN visits : w # v =>
                    /\ visits'[w].prescribedItemList = Held(w)
                    /\ visits'[w].total = visits[w].total
              /\ prescribedItems' = prescribedItems
      ]_vars

\* An item was added to a visit while another, settled visit holds an item
\* that this one holds too, and not the same items.
C16_Witness ==
    /\ ret = RetBool("addPrescribedItem", TRUE)
    /\ \E v, w \in DOMAIN visits :
          /\ v # w
          /\ Held(v) # Held(w)
          /\ visits[w].total # 0
          /\ \E j \in DOMAIN Held(v), k \in DOMAIN Held(w) :
                Held(v)[j] = Held(w)[k]

====
